---- MODULE Spec2Model ----
(***************************************************************************)
(* A model of bettingapp.py: the sheet fetch with its process-wide cache,  *)
(* the team-name matcher, the prediction formula and the request handler   *)
(* with its per-session history.                                           *)
(*                                                                         *)
(* Conventions.  A Python str is a sequence of one-character strings.  An  *)
(* optional value (a value that may be Python's None) is << >> for None    *)
(* and <<v>> for the value v.  A float is a pair <<n, d>> of naturals:     *)
(* d > 0 is the number n/d in lowest terms, <<1, 0>> is inf and <<0, 0>>   *)
(* is nan (the sheets of the model hold no negative numbers).              *)
(***************************************************************************)
EXTENDS Integers, Sequences, FiniteSets, TLC

\* The field names of the model's records.  Every record below lists its
\* fields in this order.
FieldNames ==
  << "actual", "arg", "cache", "cls", "col", "columns", "credentials", "data",
     "df", "error_message", "escaped", "exc", "http", "loads", "method", "ok",
     "pc", "prefixed", "reads", "result", "ret", "rows", "session", "sheet",
     "sheet_name", "st", "t", "team1", "team1_match", "team2", "team2_match",
     "v", "values", "what" >>

None == << >>
Some(v) == <<v>>
IsNone(o) == Len(o) = 0
Get(o) == o[1]

Range(s) == {s[i] : i \in 1..Len(s)}

(***************************************************************************)
(* Characters and str methods.                                             *)
(***************************************************************************)
\* The characters of the model in code-point order (a subset of ASCII).
AsciiOrder ==
  << " ", ".", "0", "1", "2", "3", "4", "5", "6", "7", "8", "9",
     "A", "B", "C", "D", "E", "F", "G", "H", "I", "J", "K", "L", "M",
     "N", "O", "P", "Q", "R", "S", "T", "U", "V", "W", "X", "Y", "Z",
     "a", "b", "c", "d", "e", "f", "g", "h", "i", "j", "k", "l", "m",
     "n", "o", "p", "q", "r", "s", "t", "u", "v", "w", "x", "y", "z" >>

\* ord(c), up to the gaps the subset leaves
Ord(c) == CHOOSE i \in 1..Len(AsciiOrder) : AsciiOrder[i] = c

Digits == <<"0", "1", "2", "3", "4", "5", "6", "7", "8", "9">>
IsDigit(c) == c \in Range(Digits)
DigitValue(c) == (CHOOSE i \in 1..10 : Digits[i] = c) - 1

IsSpace(c) == c = " "

\* str.lower(), one character
LowerChar(c) ==
  CASE c = "A" -> "a"
    [] c = "B" -> "b"
    [] c = "C" -> "c"
    [] c = "D" -> "d"
    [] c = "E" -> "e"
    [] c = "F" -> "f"
    [] c = "G" -> "g"
    [] c = "H" -> "h"
    [] c = "I" -> "i"
    [] c = "J" -> "j"
    [] c = "K" -> "k"
    [] c = "L" -> "l"
    [] c = "M" -> "m"
    [] c = "N" -> "n"
    [] c = "O" -> "o"
    [] c = "P" -> "p"
    [] c = "Q" -> "q"
    [] c = "R" -> "r"
    [] c = "S" -> "s"
    [] c = "T" -> "t"
    [] c = "U" -> "u"
    [] c = "V" -> "v"
    [] c = "W" -> "w"
    [] c = "X" -> "x"
    [] c = "Y" -> "y"
    [] c = "Z" -> "z"
    [] OTHER -> c

\* str.lower()
Lower(s) == [i \in 1..Len(s) |-> LowerChar(s[i])]

\* str.upper(), used to build inputs
UpperChar(c) ==
  LET ups == {u \in Range(AsciiOrder) : LowerChar(u) = c /\ u # c}
  IN  IF ups = {} THEN c ELSE CHOOSE u \in ups : TRUE
Upper(s) == [i \in 1..Len(s) |-> UpperChar(s[i])]

\* str.strip()
Strip(s) ==
  LET keep == {i \in 1..Len(s) : ~IsSpace(s[i])}
  IN  IF keep = {} THEN << >>
      ELSE LET lo == CHOOSE i \in keep : \A j \in keep : i <= j
               hi == CHOOSE i \in keep : \A j \in keep : j <= i
           IN  SubSeq(s, lo, hi)

\* s < t for two str (lexicographic by code point)
RECURSIVE StrLess(_, _)
StrLess(s, t) ==
  IF Len(t) = 0 THEN FALSE
  ELSE IF Len(s) = 0 THEN TRUE
  ELSE IF s[1] # t[1] THEN Ord(s[1]) < Ord(t[1])
  ELSE StrLess(Tail(s), Tail(t))

\* needle in hay (substring test), used to state the containment claims
Contains(hay, needle) ==
  \E i \in 1..(Len(hay) - Len(needle) + 1) :
    SubSeq(hay, i, i + Len(needle) - 1) = needle

(***************************************************************************)
(* difflib.SequenceMatcher and get_close_matches (no junk: isjunk is None  *)
(* and the autojunk heuristic needs 200 or more elements).                 *)
(***************************************************************************)
\* length of the common run of a from i and b from j, inside the windows
RECURSIVE RunLen(_, _, _, _, _, _)
RunLen(a, b, i, j, ahi, bhi) ==
  IF i <= ahi /\ j <= bhi /\ a[i] = b[j]
  THEN 1 + RunLen(a, b, i + 1, j + 1, ahi, bhi)
  ELSE 0

MinOf(S) == CHOOSE x \in S : \A y \in S : x <= y
MaxOf(S) == CHOOSE x \in S : \A y \in S : y <= x

\* of the blocks of the longest size k, the one earliest in a, then in b
EarliestBlock(longest, k) ==
  LET i == MinOf({p[1] : p \in longest})
  IN  <<i, MinOf({p[2] : p \in {q \in longest : q[1] = i}}), k>>

\* len[p] is the size of the block that starts at the pair p
LongestBlock(len, pairs, k) ==
  IF k = 0 THEN <<0, 0, 0>> ELSE EarliestBlock({p \in pairs : len[p] = k}, k)

BlockSizes(a, b, ahi, bhi, pairs) ==
  {<<p, RunLen(a, b, p[1], p[2], ahi, bhi)>> : p \in pairs}

BestBlock(sizes) ==
  LongestBlock([p \in {e[1] : e \in sizes} |-> (CHOOSE e \in sizes : e[1] = p)[2]],
               {e[1] : e \in sizes}, MaxOf({e[2] : e \in sizes}))

\* SequenceMatcher.find_longest_match over a[alo..ahi], b[blo..bhi]
\* (1-based, inclusive): <<i, j, k>>, the longest block, earliest in a, then
\* earliest in b; k = 0 when nothing matches
find_longest_match(a, b, alo, ahi, blo, bhi) ==
  IF alo > ahi \/ blo > bhi THEN <<0, 0, 0>>
  ELSE BestBlock(BlockSizes(a, b, ahi, bhi, (alo..ahi) \X (blo..bhi)))

\* the sum of the sizes of SequenceMatcher.get_matching_blocks: the longest
\* block, then the same to its left and to its right
RECURSIVE MatchCount(_, _, _, _, _, _)
AroundBlock(a, b, alo, ahi, blo, bhi, m) ==
  IF m[3] = 0 THEN 0
  ELSE m[3]
       + MatchCount(a, b, alo, m[1] - 1, blo, m[2] - 1)
       + MatchCount(a, b, m[1] + m[3], ahi, m[2] + m[3], bhi)

MatchCount(a, b, alo, ahi, blo, bhi) ==
  AroundBlock(a, b, alo, ahi, blo, bhi, find_longest_match(a, b, alo, ahi, blo, bhi))

\* SequenceMatcher.ratio() = 2.0 * matches / length as the exact fraction
\* <<2 * matches, length>>, and 1.0 when both sequences are empty
Ratio(a, b) ==
  IF Len(a) + Len(b) = 0 THEN <<1, 1>>
  ELSE <<2 * MatchCount(a, b, 1, Len(a), 1, Len(b)), Len(a) + Len(b)>>

\* the team names of the model's sheets and the words its browser types
Utah == <<"U", "t", "a", "h">>
Miami == <<"M", "i", "a", "m", "i">>
TeamNames == {Utah, Miami}
TeamWords == {Utah, Lower(Miami), <<"M", "i">>, Upper(Utah)}

\* ratio() for the names and words of the model, computed once
RatioTable == {<<p[1], p[2], Ratio(p[1], p[2])>> : p \in TeamNames \X TeamWords}

\* SequenceMatcher(a=x, b=word).ratio()
Score(x, word) ==
  IF \E e \in RatioTable : e[1] = x /\ e[2] = word
  THEN (CHOOSE e \in RatioTable : e[1] = x /\ e[2] = word)[3]
  ELSE Ratio(x, word)

\* the cutoff 0.6 passed by find_closest_match, in tenths
CutoffTenths == 6

\* r >= cutoff
MeetsCutoff(r) == 10 * r[1] >= CutoffTenths * r[2]

\* (score1, x1) < (score2, x2), Python's tuple order
ScoredLess(r1, x1, r2, x2) ==
  \/ r1[1] * r2[2] < r2[1] * r1[2]
  \/ r1[1] * r2[2] = r2[1] * r1[2] /\ StrLess(x1, x2)

\* heapq.nlargest(1, result): the largest (score, x)
Largest(scored) ==
  CHOOSE e \in scored : \A f \in scored : ~ScoredLess(e[1], e[2], f[1], f[2])

AtLeastCutoff(scored) == {e \in scored : MeetsCutoff(e[1])}

BestOf(good) == IF good = {} THEN << >> ELSE <<Largest(good)[2]>>

\* difflib.get_close_matches(word, possibilities, n=1, cutoff=0.6):
\* the candidate with the largest (score, x) among those scoring at least
\* the cutoff
get_close_matches(word, possibilities) ==
  BestOf(AtLeastCutoff({<<Score(x, word), x>> : x \in Range(possibilities)}))

(***************************************************************************)
(* Floats: numpy float64/int64 scalars as exact fractions.                 *)
(***************************************************************************)
Inf == <<1, 0>>
NaN == <<0, 0>>
IsFinite(x) == x[2] > 0
IsNaN(x) == x[1] = 0 /\ x[2] = 0

RECURSIVE GCD(_, _)
GCD(m, n) == IF n = 0 THEN m ELSE GCD(n, m % n)

Frac(n, d) == LET g == GCD(n, d) IN <<n \div g, d \div g>>

\* a / b for numpy scalars: a zero divisor gives inf or nan with a warning,
\* never an exception
FDiv(a, b) ==
  IF IsNaN(a) \/ IsNaN(b) THEN NaN
  ELSE IF ~IsFinite(a) THEN (IF IsFinite(b) THEN Inf ELSE NaN)
  ELSE IF ~IsFinite(b) THEN <<0, 1>>
  ELSE IF b[1] = 0 THEN (IF a[1] = 0 THEN NaN ELSE Inf)
  ELSE Frac(a[1] * b[2], a[2] * b[1])

\* a + b
FAdd(a, b) ==
  IF IsNaN(a) \/ IsNaN(b) THEN NaN
  ELSE IF ~IsFinite(a) \/ ~IsFinite(b) THEN Inf
  ELSE Frac(a[1] * b[2] + b[1] * a[2], a[2] * b[2])

\* decimal digits of a natural number, as a str
RECURSIVE IntToText(_)
IntToText(n) ==
  IF n < 10 THEN <<Digits[n + 1]>>
  ELSE Append(IntToText(n \div 10), Digits[(n % 10) + 1])

\* f"{x:.1f}": one decimal, round-half-even on the exact value
\* (the values of the model are dyadic, so the float is the exact value)
FormatFloat(x) ==
  IF IsNaN(x) THEN <<"n", "a", "n">>
  ELSE IF ~IsFinite(x) THEN <<"i", "n", "f">>
  ELSE LET q == (10 * x[1]) \div x[2]
           r == (10 * x[1]) % x[2]
           t == IF 2 * r < x[2] THEN q
                ELSE IF 2 * r > x[2] THEN q + 1
                ELSE IF q % 2 = 0 THEN q ELSE q + 1
       IN  IntToText(t \div 10) \o <<".">> \o IntToText(t % 10)

(***************************************************************************)
(* Cells and frames.  A cell carries its Python type: a str, a float, or   *)
(* None (a cell pandas padded in).  A frame is its column names and its    *)
(* rows, each row aligned with the columns; after set_index("Team",        *)
(* drop=False) the row labels are the Team cells.                          *)
(***************************************************************************)
StrCell(s) == [t |-> "str", v |-> s]
NumCell(x) == [t |-> "float", v |-> x]
NoneCell == [t |-> "None", v |-> << >>]

Team == <<"T", "e", "a", "m">>
G == <<"G">>
PF == <<"P", "F">>
PA == <<"P", "A">>
PPG == <<"P", "P", "G">>
OPP_PPG == <<"O", "P", "P", " ", "P", "P", "G">>

NCAAF == <<"N", "C", "A", "A", "F">>
NBA == <<"N", "B", "A">>
NFL == <<"N", "F", "L">>

\* the keys of SHEET_RANGES, in dict order
SHEET_RANGES == <<NCAAF, NBA, NFL>>

\* the position of a column in a frame, 0 when the frame has no such column
ColIndex(df, col) ==
  IF \E i \in 1..Len(df.columns) : df.columns[i] = col
  THEN CHOOSE i \in 1..Len(df.columns) : df.columns[i] = col
  ELSE 0

\* pd.to_numeric(cell, errors="coerce"): a run of digits parses, a cell of
\* letters, an empty cell and None give nan (the cells of the model are of
\* these kinds)
RECURSIVE ParseDigits(_)
ParseDigits(s) ==
  IF Len(s) = 0 THEN 0
  ELSE 10 * ParseDigits(SubSeq(s, 1, Len(s) - 1)) + DigitValue(s[Len(s)])

to_numeric(cell) ==
  IF cell.t = "float" THEN cell.v
  ELSE IF cell.t = "str" /\ Len(cell.v) > 0 /\ \A i \in 1..Len(cell.v) : IsDigit(cell.v[i])
  THEN <<ParseDigits(cell.v), 1>>
  ELSE NaN

\* .fillna(0)
fillna0(x) == IF IsNaN(x) THEN <<0, 1>> ELSE x

\* df[col] = pd.to_numeric(df[col], errors="coerce").fillna(0) for one column
CoerceColumn(df, c) ==
  [df EXCEPT !.rows =
     [r \in 1..Len(df.rows) |->
        [df.rows[r] EXCEPT ![c] = NumCell(fillna0(to_numeric(df.rows[r][c])))]]]

\* the loop over df.columns that coerces every column but "Team"
RECURSIVE CoerceFrom(_, _)
CoerceFrom(df, c) ==
  IF c > Len(df.columns) THEN df
  ELSE IF df.columns[c] = Team THEN CoerceFrom(df, c + 1)
  ELSE CoerceFrom(CoerceColumn(df, c), c + 1)

\* every column but "Team" holds floats in every row
IsCoerced(df) ==
  \A r \in 1..Len(df.rows) : \A c \in 1..Len(df.columns) :
    df.columns[c] # Team => df.rows[r][c].t = "float"

\* required_columns for the sheet
required_columns(actual_sheet_name) ==
  IF actual_sheet_name # NBA THEN <<Team, G, PF, PA>> ELSE <<Team, PPG, OPP_PPG>>

\* the first required column the frame lacks, if any
FirstMissing(df, actual_sheet_name) ==
  LET req == required_columns(actual_sheet_name)
      miss == {i \in 1..Len(req) : ColIndex(df, req[i]) = 0}
  IN  IF miss = {} THEN None
      ELSE Some(req[CHOOSE i \in miss : \A j \in miss : i <= j])

\* the frame has every column its sheet requires
IsValidated(df, actual_sheet_name) == IsNone(FirstMissing(df, actual_sheet_name))

Exc(cls, what, arg) == [arg |-> arg, cls |-> cls, what |-> what]

\* pd.DataFrame(values[1:], columns=values[0]): short rows are padded with
\* None up to the longest row, and the width must then be the header's
\* (the headers of the model hold no column name twice)
Widest(rows) ==
  IF Len(rows) = 0 THEN 0
  ELSE CHOOSE n \in {Len(rows[i]) : i \in 1..Len(rows)} :
         \A i \in 1..Len(rows) : Len(rows[i]) <= n

DataFrame(values) ==
  LET header == values[1]
      rows == Tail(values)
      w == Widest(rows)
  IN  IF Len(rows) > 0 /\ w # Len(header)
      THEN [df |-> << >>, exc |-> Exc("ValueError", "columns passed", << >>), ok |-> FALSE]
      ELSE [df |-> [columns |-> header,
                    rows |-> [r \in 1..Len(rows) |->
                                [c \in 1..w |->
                                   IF c <= Len(rows[r]) THEN StrCell(rows[r][c])
                                   ELSE NoneCell]]],
            exc |-> << >>, ok |-> TRUE]

(***************************************************************************)
(* The remote spreadsheet.  Every read may find any of the outcomes below: *)
(* the credentials cannot be loaded, the API call fails, the range is      *)
(* empty, or one of a few sheets (so the sheet may change between reads).  *)
(***************************************************************************)
NbaSheet ==
  << <<Team, PPG, OPP_PPG>>,
     <<Utah, <<"1", "1", "5">>, <<"1", "1", "0">> >>,
     <<Miami, <<"1", "1", "8">>, <<"1", "0", "8">> >> >>

\* a changed sheet whose last row lost its trailing cell
NbaSheetShortRow ==
  << <<Team, PPG, OPP_PPG>>,
     <<Utah, <<"1", "2", "0">>, <<"1", "1", "0">> >>,
     <<Miami, <<"1", "1", "8">> >> >>

\* a sheet that lists one team twice
NbaSheetTwice ==
  << <<Team, PPG, OPP_PPG>>,
     <<Utah, <<"1", "1", "5">>, <<"1", "1", "0">> >>,
     <<Miami, <<"1", "1", "8">>, <<"1", "0", "8">> >>,
     <<Utah, <<"1", "0", "0">>, <<"1", "0", "0">> >> >>

NbaSheetNoOppPpg ==
  << <<Team, PPG>>,
     <<Utah, <<"1", "1", "5">> >> >>

\* a sheet whose third header cell is blank: the API drops the trailing cell
NbaSheetBlankHeader ==
  << <<Team, PPG>>,
     <<Utah, <<"1", "1", "5">>, <<"1", "1", "0">> >> >>

NflSheet ==
  << <<Team, G, PF, PA>>,
     <<Utah, <<"1", "0">>, <<"2", "8", "0">>, <<"2", "2", "0">> >>,
     <<Miami, <<"1", "0">>, <<"3", "0", "0">>, <<"2", "4", "0">> >> >>

\* a sheet whose G cells are not numbers or are zero
NflSheetNoGames ==
  << <<Team, G, PF, PA>>,
     <<Utah, <<"x">>, <<"2", "8", "0">>, <<"2", "2", "0">> >>,
     <<Miami, <<"0">>, << >>, << >> >> >>

NflSheetNoPA ==
  << <<Team, G, PF>>,
     <<Utah, <<"1", "0">>, <<"2", "8", "0">> >> >>

NflSheetNoTeam ==
  << <<G, PF, PA>>,
     <<<<"1", "0">>, <<"2", "8", "0">>, <<"2", "2", "0">> >> >>

\* a sheet whose fourth header cell is blank
NflSheetBlankHeader ==
  << <<Team, G, PF>>,
     <<Utah, <<"1", "0">>, <<"2", "8", "0">>, <<"2", "2", "0">> >> >>

Outcomes == 1..8

Reply(c, h, v) == [credentials |-> c, http |-> h, values |-> v]

\* what the k-th outcome is for the range of a sheet
RemoteRead(actual_sheet_name, k) ==
  CASE k = 1 -> Reply(FALSE, FALSE, << >>)
    [] k = 2 -> Reply(TRUE, FALSE, << >>)
    [] k = 3 -> Reply(TRUE, TRUE, << >>)
    [] k = 4 -> Reply(TRUE, TRUE, IF actual_sheet_name = NBA THEN NbaSheet ELSE NflSheet)
    [] k = 5 -> Reply(TRUE, TRUE,
                      IF actual_sheet_name = NBA THEN NbaSheetNoOppPpg ELSE NflSheetNoPA)
    [] k = 6 -> Reply(TRUE, TRUE,
                      IF actual_sheet_name = NBA THEN NbaSheetShortRow ELSE NflSheetNoGames)
    [] k = 7 -> Reply(TRUE, TRUE,
                      IF actual_sheet_name = NBA THEN NbaSheetTwice ELSE NflSheetNoTeam)
    [] OTHER -> Reply(TRUE, TRUE,
                      IF actual_sheet_name = NBA THEN NbaSheetBlankHeader
                      ELSE NflSheetBlankHeader)

(***************************************************************************)
(* fetch_data_from_sheets.  A call reads and writes the process state st:  *)
(* [cache, loads, reads, values], the dict and what the call did so far    *)
(* (credential loads, remote reads per sheet, the values it read).  Its    *)
(* outcome is [exc, ret, st]: the exception raised (or None), the frame    *)
(* returned (or None) and the state afterwards.                            *)
(***************************************************************************)
Raised(exc, st) == [exc |-> Some(exc), ret |-> None, st |-> st]
Returned(df, st) == [exc |-> None, ret |-> Some(df), st |-> st]

\* sheet_name.strip().lower()
NormalizeSheetName(sheet_name) == Lower(Strip(sheet_name))

\* sheet_ranges_normalized: the key of SHEET_RANGES with this lowercase form
IsSheetName(name) == \E i \in 1..Len(SHEET_RANGES) : Lower(SHEET_RANGES[i]) = name
ActualSheetName(name) ==
  SHEET_RANGES[CHOOSE i \in 1..Len(SHEET_RANGES) : Lower(SHEET_RANGES[i]) = name]

\* a variant that tests the lowercase name, the key the unreachable lines
\* after the try block store under
CacheHitByLowercaseName(cache, actual_sheet_name) == Lower(actual_sheet_name) \in DOMAIN cache

\* actual_sheet_name in sheet_data_cache
CacheHit(cache, actual_sheet_name) == actual_sheet_name \in DOMAIN cache

\* sheet_data_cache[key] = df
CachePut(cache, key, df) ==
  [k \in DOMAIN cache \cup {key} |-> IF k = key THEN df ELSE cache[k]]

\* the frame is built; the loop over required_columns, then the coercion
CheckColumns(df, missing) ==
  IF ~IsNone(missing)
  THEN [df |-> << >>, exc |-> Exc("ValueError", "Missing required column", Get(missing)),
        ok |-> FALSE]
  ELSE [df |-> CoerceFrom(df, 1), exc |-> << >>, ok |-> TRUE]

CheckFrame(built, actual_sheet_name) ==
  IF ~built.ok THEN built
  ELSE CheckColumns(built.df, FirstMissing(built.df, actual_sheet_name))

\* the try block once the values are in: [df, exc, ok], the frame to cache
\* or the exception
BuildTable(values, actual_sheet_name) ==
  IF Len(values) = 0
  THEN [df |-> << >>, exc |-> Exc("ValueError", "No data found", actual_sheet_name),
        ok |-> FALSE]
  ELSE CheckFrame(DataFrame(values), actual_sheet_name)

\* return sheet_data_cache[actual_sheet_name]
ReturnCached(actual_sheet_name, st) == Returned(st.cache[actual_sheet_name], st)

\* the table is built or has failed: cache it and return the cache's entry
StoreTable(actual_sheet_name, st, table) ==
  IF ~table.ok THEN Raised(table.exc, st)
  ELSE ReturnCached(actual_sheet_name,
                    [st EXCEPT !.cache = CachePut(@, actual_sheet_name, table.df)])

CredentialsLoaded(st) == [st EXCEPT !.loads = @ + 1]
ValuesRead(st, actual_sheet_name, values) ==
  [st EXCEPT !.reads[actual_sheet_name] = @ + 1, !.values = Some(values)]

\* the try block: credentials, the remote read, the table.  An HttpError
\* becomes a RuntimeError; any other exception leaves the function as it is.
ReadRemote(actual_sheet_name, st, reply) ==
  IF ~reply.credentials
  THEN Raised(Exc("RefreshError", "credentials", << >>), CredentialsLoaded(st))
  ELSE IF ~reply.http
  THEN Raised(Exc("RuntimeError", "Failed to fetch data from Google Sheets.", << >>),
              [CredentialsLoaded(st) EXCEPT !.reads[actual_sheet_name] = @ + 1])
  ELSE StoreTable(actual_sheet_name,
                  ValuesRead(CredentialsLoaded(st), actual_sheet_name, reply.values),
                  BuildTable(reply.values, actual_sheet_name))

\* the cache is looked up first; k picks the outcome of the remote read
FromCacheOrRemote(actual_sheet_name, st, k) ==
  IF CacheHit(st.cache, actual_sheet_name)
  THEN ReturnCached(actual_sheet_name, st)
  ELSE ReadRemote(actual_sheet_name, st, RemoteRead(actual_sheet_name, k))

\* a variant that loads the credentials before it validates the name
LookUpSheetAfterCredentials(name, st, k) ==
  IF ~IsSheetName(name)
  THEN Raised(Exc("ValueError", "Sheet name is not valid", name), CredentialsLoaded(st))
  ELSE FromCacheOrRemote(ActualSheetName(name), st, k)

\* the normalized name is looked up in sheet_ranges_normalized
LookUpSheet(name, st, k) ==
  IF ~IsSheetName(name)
  THEN Raised(Exc("ValueError", "Sheet name is not valid", name), st)
  ELSE FromCacheOrRemote(ActualSheetName(name), st, k)

\* fetch_data_from_sheets(sheet_name); sheet_name may be None
fetch_data_from_sheets(sheet_name, st, k) ==
  IF IsNone(sheet_name)
  THEN Raised(Exc("AttributeError", "NoneType has no attribute strip", << >>), st)
  ELSE LookUpSheet(NormalizeSheetName(Get(sheet_name)), st, k)

(***************************************************************************)
(* find_closest_match and calculate_predicted                              *)
(***************************************************************************)
\* data["Team"].unique(): the Team cells in order of first appearance
RECURSIVE UniqueFrom(_, _, _, _)
UniqueFrom(rows, c, r, seen) ==
  IF r > Len(rows) THEN seen
  ELSE UniqueFrom(rows, c, r + 1,
                  IF rows[r][c].v \in Range(seen) THEN seen ELSE Append(seen, rows[r][c].v))

Teams(df) == UniqueFrom(df.rows, ColIndex(df, Team), 1, << >>)

\* matches[0] if matches else None
FirstOrNone(matches) == IF Len(matches) > 0 THEN Some(matches[1]) ELSE None

\* find_closest_match(user_input, team_list) for a str user_input
find_closest_match(user_input, team_list) ==
  FirstOrNone(get_close_matches(user_input, team_list))

\* the rows df.loc[team] selects
LocRows(rows, c, team) == {r \in 1..Len(rows) : rows[r][c].v = team}
Loc(df, team) == LocRows(df.rows, ColIndex(df, Team), team)

\* the branch of calculate_predicted: sheet_name.lower() == "nba"
UsesNbaFormula(sheet_name) == Lower(sheet_name) = <<"n", "b", "a">>

FloatValue(x) == [t |-> "float", v |-> x]
SeriesValue == [t |-> "Series", v |-> << >>]

Computed(value) == [exc |-> None, ret |-> Some(value)]
Failed(exc) == [exc |-> Some(exc), ret |-> None]

\* team_stats[col] for the one row of a team
Stat(df, rows, col) == df.rows[CHOOSE r \in rows : TRUE][ColIndex(df, col)].v

Half(x) == FDiv(x, <<2, 1>>)

\* the NBA branch
NbaPrediction(df, rows1, rows2) ==
  Half(FAdd(FAdd(Stat(df, rows1, PPG), Stat(df, rows1, OPP_PPG)),
            FAdd(Stat(df, rows2, PPG), Stat(df, rows2, OPP_PPG))))

\* the branch for the other sports
AveragesPrediction(df, rows1, rows2) ==
  Half(FAdd(FAdd(FDiv(Stat(df, rows1, PF), Stat(df, rows1, G)),
                 FDiv(Stat(df, rows1, PA), Stat(df, rows1, G))),
            FAdd(FDiv(Stat(df, rows2, PF), Stat(df, rows2, G)),
                 FDiv(Stat(df, rows2, PA), Stat(df, rows2, G)))))

\* the columns a branch reads, in the order it reads them
ColumnsRead(nba) == IF nba THEN <<PPG, OPP_PPG>> ELSE <<PF, G, PA>>

FirstLacking(df, cols) ==
  IF \A i \in 1..Len(cols) : ColIndex(df, cols[i]) # 0 THEN None
  ELSE Some(cols[MinOf({i \in 1..Len(cols) : ColIndex(df, cols[i]) = 0})])

\* both teams are in the frame.  A team in several rows makes every stat a
\* Series, and so the result (the model's sheets repeat at most one team,
\* so the Series share their labels).
Predict(df, rows1, rows2, nba, lacking) ==
  IF ~IsNone(lacking) THEN Failed(Exc("KeyError", "column", Get(lacking)))
  ELSE IF Cardinality(rows1) > 1 \/ Cardinality(rows2) > 1 THEN Computed(SeriesValue)
  ELSE IF nba THEN Computed(FloatValue(NbaPrediction(df, rows1, rows2)))
  ELSE Computed(FloatValue(AveragesPrediction(df, rows1, rows2)))

LookUpTeams(df, team1, rows1, team2, rows2, nba) ==
  IF rows1 = {} THEN Failed(Exc("KeyError", "label", team1))
  ELSE IF rows2 = {} THEN Failed(Exc("KeyError", "label", team2))
  ELSE Predict(df, rows1, rows2, nba, FirstLacking(df, ColumnsRead(nba)))

\* calculate_predicted(team1, team2, df, sheet_name): [exc, ret]
calculate_predicted(team1, team2, df, sheet_name) ==
  LookUpTeams(df, team1, Loc(df, team1), team2, Loc(df, team2), UsesNbaFormula(sheet_name))

(***************************************************************************)
(* The state: the process-wide cache, what the last call did (credential   *)
(* loads, remote reads per sheet, the values read), the session, and       *)
(* the last request with the locals of index() when it returned.           *)
(***************************************************************************)
VARIABLES sheet_data_cache, remote_reads, credential_loads, values_read,
          session, request, data, team1_match, team2_match, result,
          error_message, escaped, threads

vars == <<sheet_data_cache, remote_reads, credential_loads, values_read,
          session, request, data, team1_match, team2_match, result,
          error_message, escaped, threads>>

MaxHistory == 2

\* the form's sheet_name: absent, or some spelling
SheetNameInputs ==
  {None, Some(NBA), Some(<<" ", "n", "b", "a">>), Some(<<"n", "f", "l", " ">>),
   Some(<<"M", "L", "B">>)}

\* the form's team1 and team2
TeamInputs ==
  {<<Some(Utah), Some(Lower(Miami))>>, <<Some(Utah), Some(Utah)>>,
   <<Some(<<"M", "i">>), Some(Utah)>>, <<Some(Utah), Some(Upper(Utah))>>,
   <<None, Some(Utah)>>, <<Some(Utah), None>>}

\* a variant of index() with the first except clause only
ExceptClauseValueErrorOnly(exc) == IF exc.cls = "ValueError" THEN "ValueError" ELSE "none"

\* the except clause of index() that catches an exception
ExceptClause(exc) ==
  IF exc.cls = "ValueError" THEN "ValueError"
  ELSE IF exc.cls \in {"RuntimeError", "RefreshError", "AttributeError", "TypeError",
                       "KeyError"}
  THEN "Exception"
  ELSE "none"

\* str(ve), or f"Error: {e}"
Message(prefixed, what, arg) == [arg |-> arg, prefixed |-> prefixed, what |-> what]

NotFoundMessage == Message(FALSE, "One or both team names were not found", << >>)

\* the locals of index() and the state it leaves
Frame(df, m1, m2, st, sess) ==
  [data |-> df, error_message |-> None, escaped |-> None, result |-> None,
   session |-> sess, st |-> st, team1_match |-> m1, team2_match |-> m2]

\* an exception raised inside the try block
Raise(exc, fr) ==
  CASE ExceptClause(exc) = "ValueError" ->
         [fr EXCEPT !.error_message = Some(Message(FALSE, exc.what, exc.arg))]
    [] ExceptClause(exc) = "Exception" ->
         [fr EXCEPT !.error_message = Some(Message(TRUE, exc.what, exc.arg))]
    [] OTHER -> [fr EXCEPT !.escaped = Some(exc)]

HistoryEntry(sheet, team1, team2, text) ==
  [result |-> text, sheet |-> sheet, team1 |-> team1, team2 |-> team2]

\* session.get("history", [])
History(sess) == IF IsNone(sess) THEN << >> ELSE Get(sess)
HistoryLen(sess) == Len(History(sess))

\* a variant that starts a new list whenever a query succeeds
NewHistory(sess) == Some(<< >>)

\* if "history" not in session: session["history"] = []
EnsureHistory(sess) == IF IsNone(sess) THEN Some(<< >>) ELSE sess

\* session["history"].append({...}): the result is formatted first, and
\* only a float takes the format
AppendHistory(fr, form, value) ==
  IF value.t # "float"
  THEN Raise(Exc("TypeError", "unsupported format string", << >>), fr)
  ELSE [fr EXCEPT !.session =
          Some(Append(Get(@), HistoryEntry(Get(form.sheet_name), Get(fr.team1_match),
                                           Get(fr.team2_match), FormatFloat(value.v))))]

\* result = calculate_predicted(...) has returned or raised
Calculated(form, fr, calc) ==
  IF ~IsNone(calc.exc) THEN Raise(Get(calc.exc), fr)
  ELSE AppendHistory([fr EXCEPT !.result = calc.ret, !.session = EnsureHistory(@)],
                     form, Get(calc.ret))

\* both names went through find_closest_match
Matched(form, st, sess, df, m1, m2) ==
  IF IsNone(m1) \/ IsNone(m2)
  THEN [Frame(Some(df), m1, m2, st, sess) EXCEPT !.error_message = Some(NotFoundMessage)]
  ELSE Calculated(form, Frame(Some(df), m1, m2, st, sess),
                  calculate_predicted(Get(m1), Get(m2), df, Get(form.sheet_name)))

\* team2_match = find_closest_match(team2, teams)
MatchTeam2(form, st, sess, df, teams, m1) ==
  IF IsNone(form.team2)
  THEN Raise(Exc("TypeError", "NoneType is not iterable", << >>),
             Frame(Some(df), m1, None, st, sess))
  ELSE Matched(form, st, sess, df, m1, find_closest_match(Get(form.team2), teams))

\* team1_match = find_closest_match(team1, teams)
MatchTeam1(form, st, sess, df, teams) ==
  IF IsNone(form.team1)
  THEN Raise(Exc("TypeError", "NoneType is not iterable", << >>),
             Frame(Some(df), None, None, st, sess))
  ELSE MatchTeam2(form, st, sess, df, teams, find_closest_match(Get(form.team1), teams))

\* data = fetch_data_from_sheets(sheet_name) has returned or raised
Fetched(form, sess, fetched) ==
  IF ~IsNone(fetched.exc)
  THEN Raise(Get(fetched.exc), Frame(None, None, None, fetched.st, sess))
  ELSE MatchTeam1(form, fetched.st, sess, Get(fetched.ret), Teams(Get(fetched.ret)))

\* the POST branch of index()
Post(form, st, sess, k) == Fetched(form, sess, fetch_data_from_sheets(form.sheet_name, st, k))

NoReads == [s \in Range(SHEET_RANGES) |-> 0]

\* the process state a call starts from
ProcessState ==
  [cache |-> sheet_data_cache, loads |-> 0, reads |-> NoReads, values |-> None]

\* a call reaches the remote read only for a sheet name that is not cached
ReachesRemote(sheet_name) ==
  /\ ~IsNone(sheet_name)
  /\ IsSheetName(NormalizeSheetName(Get(sheet_name)))
  /\ ~CacheHit(sheet_data_cache, ActualSheetName(NormalizeSheetName(Get(sheet_name))))

OutcomesFor(sheet_name) == IF ReachesRemote(sheet_name) THEN Outcomes ELSE {1}

Request(method, sheet_name, team1, team2) ==
  [method |-> method, sheet_name |-> sheet_name, team1 |-> team1, team2 |-> team2]

NumThreads == 2
Idle == [actual |-> << >>, col |-> 0, df |-> << >>, exc |-> None, pc |-> "idle",
         ret |-> None, sheet_name |-> << >>, values |-> << >>]

Init ==
  /\ sheet_data_cache = << >>
  /\ remote_reads = NoReads
  /\ credential_loads = 0
  /\ values_read = None
  /\ session = None
  /\ request = Request("GET", None, None, None)
  /\ data = None
  /\ team1_match = None
  /\ team2_match = None
  /\ result = None
  /\ error_message = None
  /\ escaped = None
  /\ threads = [t \in 1..NumThreads |-> Idle]

\* a GET of the page
IndexGet ==
  /\ session' = Some(<< >>)
  /\ request' = Request("GET", None, None, None)
  /\ remote_reads' = NoReads
  /\ credential_loads' = 0
  /\ values_read' = None
  /\ data' = None
  /\ team1_match' = None
  /\ team2_match' = None
  /\ result' = None
  /\ error_message' = None
  /\ escaped' = None
  /\ UNCHANGED <<sheet_data_cache, threads>>

\* a POST of the form
IndexPost ==
  \E sheet_name \in SheetNameInputs, teams \in TeamInputs :
    \E k \in OutcomesFor(sheet_name) :
      \E fr \in {Post(Request("POST", sheet_name, teams[1], teams[2]),
                      ProcessState, session, k)} :
        /\ HistoryLen(fr.session) <= MaxHistory
        /\ request' = Request("POST", sheet_name, teams[1], teams[2])
        /\ sheet_data_cache' = fr.st.cache
        /\ remote_reads' = fr.st.reads
        /\ credential_loads' = fr.st.loads
        /\ values_read' = fr.st.values
        /\ session' = fr.session
        /\ data' = fr.data
        /\ team1_match' = fr.team1_match
        /\ team2_match' = fr.team2_match
        /\ result' = fr.result
        /\ error_message' = fr.error_message
        /\ escaped' = fr.escaped
        /\ UNCHANGED threads

Next == IndexGet \/ IndexPost

Spec == Init /\ [][Next]_vars

(***************************************************************************)
(* fetch_data_from_sheets called on its own, any number of times in one    *)
(* process: data is what the call returned, escaped the exception that     *)
(* left it.                                                                *)
(***************************************************************************)
FetchInputs ==
  {NBA, <<" ", "n", "b", "a">>, NFL, <<"n", "f", "l", " ">>, NCAAF, Lower(NCAAF),
   <<"M", "L", "B">>, <<"N", "B">>, << >>}

FetchCall ==
  \E sheet_name \in FetchInputs :
    \E k \in OutcomesFor(Some(sheet_name)) :
      \E out \in {fetch_data_from_sheets(Some(sheet_name), ProcessState, k)} :
        /\ request' = Request("CALL", Some(sheet_name), None, None)
        /\ sheet_data_cache' = out.st.cache
        /\ remote_reads' = out.st.reads
        /\ credential_loads' = out.st.loads
        /\ values_read' = out.st.values
        /\ data' = out.ret
        /\ escaped' = out.exc
        /\ UNCHANGED <<session, team1_match, team2_match, result, error_message, threads>>

SpecFetch == Init /\ [][FetchCall]_vars

(***************************************************************************)
(* Requests served by concurrent threads.  Each thread runs               *)
(* fetch_data_from_sheets a statement at a time; its frame is local, the   *)
(* dict is shared.  threads[t] holds the thread's locals and where it is.  *)
(***************************************************************************)
ConcInputs == {NFL, <<"n", "f", "l", " ">>, <<"M", "L", "B">>}

Thread(pc, sheet_name, actual, values, df, col, ret, exc) ==
  [actual |-> actual, col |-> col, df |-> df, exc |-> exc, pc |-> pc,
   ret |-> ret, sheet_name |-> sheet_name, values |-> values]

\* the exception leaves the function
ThreadRaised(th, exc) == [th EXCEPT !.pc = "done", !.exc = Some(exc)]

\* the lines up to the test of the cache
Called(sheet_name, name, cache) ==
  IF ~IsSheetName(name)
  THEN ThreadRaised(Thread("idle", sheet_name, << >>, << >>, << >>, 0, None, None),
                    Exc("ValueError", "Sheet name is not valid", name))
  ELSE Thread(IF CacheHit(cache, ActualSheetName(name)) THEN "hit" ELSE "read",
              sheet_name, ActualSheetName(name), << >>, << >>, 0, None, None)

\* the credentials and the remote read, up to the test of the values
HasRead(th, reply) ==
  IF ~reply.credentials THEN ThreadRaised(th, Exc("RefreshError", "credentials", << >>))
  ELSE IF ~reply.http
  THEN ThreadRaised(th, Exc("RuntimeError", "Failed to fetch data from Google Sheets.",
                            << >>))
  ELSE IF Len(reply.values) = 0
  THEN ThreadRaised(th, Exc("ValueError", "No data found", th.actual))
  ELSE [th EXCEPT !.pc = "frame", !.values = reply.values]

\* a variant that caches the frame before its columns are coerced
StoreBeforeCoercion == "store"

\* where a thread goes once its frame has the required columns
AfterColumns == "coerce"

\* the frame and the loop over required_columns
HasFrame(th, built) ==
  IF ~built.ok THEN ThreadRaised(th, built.exc)
  ELSE IF ~IsValidated(built.df, th.actual)
  THEN ThreadRaised(th, Exc("ValueError", "Missing required column",
                            Get(FirstMissing(built.df, th.actual))))
  ELSE [th EXCEPT !.pc = AfterColumns, !.df = built.df, !.col = 1]

\* one round of the loop over df.columns
Coerced(th) ==
  IF th.col > Len(th.df.columns) THEN [th EXCEPT !.pc = "store"]
  ELSE IF th.df.columns[th.col] = Team THEN [th EXCEPT !.col = @ + 1]
  ELSE [th EXCEPT !.df = CoerceColumn(@, th.col), !.col = @ + 1]

T_Call(t) ==
  /\ threads[t].pc = "idle"
  /\ \E sheet_name \in ConcInputs :
       threads' = [threads EXCEPT ![t] = Called(sheet_name, NormalizeSheetName(sheet_name),
                                                sheet_data_cache)]
  /\ UNCHANGED <<sheet_data_cache, remote_reads, credential_loads, values_read, session,
                 request, data, team1_match, team2_match, result, error_message, escaped>>

T_Read(t) ==
  /\ threads[t].pc = "read"
  /\ \E k \in Outcomes :
       threads' = [threads EXCEPT ![t] = HasRead(@, RemoteRead(threads[t].actual, k))]
  /\ UNCHANGED <<sheet_data_cache, remote_reads, credential_loads, values_read, session,
                 request, data, team1_match, team2_match, result, error_message, escaped>>

T_Frame(t) ==
  /\ threads[t].pc = "frame"
  /\ threads' = [threads EXCEPT ![t] = HasFrame(@, DataFrame(threads[t].values))]
  /\ UNCHANGED <<sheet_data_cache, remote_reads, credential_loads, values_read, session,
                 request, data, team1_match, team2_match, result, error_message, escaped>>

T_Coerce(t) ==
  /\ threads[t].pc = "coerce"
  /\ threads' = [threads EXCEPT ![t] = Coerced(@)]
  /\ UNCHANGED <<sheet_data_cache, remote_reads, credential_loads, values_read, session,
                 request, data, team1_match, team2_match, result, error_message, escaped>>

\* sheet_data_cache[actual_sheet_name] = df.set_index("Team", drop=False)
T_Store(t) ==
  /\ threads[t].pc = "store"
  /\ sheet_data_cache' = CachePut(sheet_data_cache, threads[t].actual, threads[t].df)
  /\ threads' = [threads EXCEPT ![t].pc = "return"]
  /\ UNCHANGED <<remote_reads, credential_loads, values_read, session,
                 request, data, team1_match, team2_match, result, error_message, escaped>>

\* return sheet_data_cache[actual_sheet_name], on a hit or after the store
T_Return(t) ==
  /\ threads[t].pc \in {"hit", "return"}
  /\ threads' = [threads EXCEPT ![t].pc = "done",
                                ![t].ret = Some(sheet_data_cache[threads[t].actual])]
  /\ UNCHANGED <<sheet_data_cache, remote_reads, credential_loads, values_read, session,
                 request, data, team1_match, team2_match, result, error_message, escaped>>

\* the request is over; the thread serves the next one
T_Done(t) ==
  /\ threads[t].pc = "done"
  /\ threads' = [threads EXCEPT ![t] = Idle]
  /\ UNCHANGED <<sheet_data_cache, remote_reads, credential_loads, values_read, session,
                 request, data, team1_match, team2_match, result, error_message, escaped>>

NextConc ==
  \E t \in 1..NumThreads :
    \/ T_Call(t)
    \/ T_Read(t)
    \/ T_Frame(t)
    \/ T_Coerce(t)
    \/ T_Store(t)
    \/ T_Return(t)
    \/ T_Done(t)

SpecConc == Init /\ [][NextConc]_vars

(***************************************************************************)
(* The properties                                                          *)
(***************************************************************************)
Leagues == {NCAAF, NBA, NFL}

\* the key is a spelling of the league's name: equal to it when case and
\* surrounding spaces are ignored
Spells(key, L) == ~IsNone(key) /\ Upper(Strip(Get(key))) = L

IsPost == request.method = "POST"

\* C1: within one process, once a fetch for league L has succeeded, every
\* later fetch for L, under any case or whitespace spelling of its key,
\* returns the same table and performs no remote read.  As a property of
\* every call: a call for L that returns, returns the cache's entry for L; an
\* entry of the cache never changes; and while L has an entry no call reads
\* L remotely and every call for L returns that entry.
C1_LaterFetchesServedFromCache ==
  [][\A L \in Leagues :
       /\ (Spells(request'.sheet_name, L) /\ ~IsNone(data'))
            => (L \in DOMAIN sheet_data_cache' /\ data' = Some(sheet_data_cache'[L]))
       /\ L \in DOMAIN sheet_data_cache
            => /\ L \in DOMAIN sheet_data_cache'
               /\ sheet_data_cache'[L] = sheet_data_cache[L]
               /\ remote_reads'[L] = 0
               /\ Spells(request'.sheet_name, L)
                    => (data' = Some(sheet_data_cache[L]) /\ IsNone(escaped'))]_vars

\* a call under another spelling was served the table of a sheet that a
\* read would no longer find unchanged, without any remote read
C1_Witness ==
  /\ request.method = "CALL"
  /\ request.sheet_name = Some(<<" ", "n", "b", "a">>)
  /\ NBA \in DOMAIN sheet_data_cache
  /\ data = Some(sheet_data_cache[NBA])
  /\ sheet_data_cache[NBA] = BuildTable(NbaSheetShortRow, NBA).df
  /\ remote_reads = NoReads
  /\ credential_loads = 0
  /\ IsNone(values_read)

\* the first candidate, in candidate order, that contains the input
Containing(input, team_list) == {i \in 1..Len(team_list) : Contains(team_list[i], input)}
FirstContaining(input, team_list) == team_list[MinOf(Containing(input, team_list))]

\* C2: if the input is a substring of at least one candidate name,
\* find_closest_match returns the first such candidate in candidate order,
\* even when the similarity ratio is low.  Stated for the first team of a
\* request whose table was fetched.
C2_ContainmentFirst ==
  (/\ IsPost
   /\ ~IsNone(data)
   /\ ~IsNone(request.team1)
   /\ Containing(Get(request.team1), Teams(Get(data))) # {})
    => team1_match = Some(FirstContaining(Get(request.team1), Teams(Get(data))))

\* the canonical names an input differs from only in case or outer spaces
SameButCase(input, team_list) ==
  {i \in 1..Len(team_list) : Lower(Strip(team_list[i])) = Lower(Strip(input))}

\* C3: team-name resolution is case-insensitive and ignores surrounding
\* whitespace: an input that differs from a canonical name C of the table
\* only in letter case or outer spaces resolves to C, never to none and
\* never to another team.  Stated for the second team of a request whose
\* first team was resolved or not.
C3_CaseInsensitiveResolution ==
  (/\ IsPost
   /\ ~IsNone(data)
   /\ ~IsNone(request.team1)
   /\ ~IsNone(request.team2))
    => \A i \in SameButCase(Get(request.team2), Teams(Get(data))) :
         team2_match = Some(Teams(Get(data))[i])

\* the G cell of a team's row in a table
Games(df, team) == Stat(df, Loc(df, team), G)

IsFloat(value) == ~IsNone(value) /\ Get(value).t = "float"

NotANumberTexts == {<<"i", "n", "f">>, <<"-", "i", "n", "f">>, <<"n", "a", "n">>}

\* C4: for NFL and NCAAF, when either resolved team has G = 0 in the table
\* (a G cell zero-filled at ingestion included), the request returns an
\* error message and no prediction; an infinite or undefined value is never
\* the prediction and never appended to the history.
C4_ZeroGamesIsAnError ==
  /\ \A i \in 1..HistoryLen(session) : Get(session)[i].result \notin NotANumberTexts
  /\ (/\ IsPost
      /\ Spells(request.sheet_name, NFL) \/ Spells(request.sheet_name, NCAAF)
      /\ ~IsNone(data)
      /\ ~IsNone(team1_match)
      /\ ~IsNone(team2_match)
      /\ \/ Games(Get(data), Get(team1_match)) = <<0, 1>>
         \/ Games(Get(data), Get(team2_match)) = <<0, 1>>)
       => (~IsNone(error_message) /\ IsNone(result))

\* C5: in one session the history equals, in order, the entries of exactly
\* the successful queries since the last reset: a successful query appends
\* its entry at the end whatever the list holds, a query that ends in an
\* error appends nothing, and a GET empties the list.
C5_HistoryIsTheSuccessfulQueries ==
  [][/\ request'.method = "GET" => History(session') = << >>
     /\ request'.method = "POST" =>
          IF IsNone(error_message') /\ IsNone(escaped') /\ ~IsNone(result')
          THEN History(session') =
                 Append(History(session),
                        HistoryEntry(Get(request'.sheet_name), Get(team1_match'),
                                     Get(team2_match'), FormatFloat(Get(result').v)))
          ELSE History(session') = History(session)]_vars

\* two equal successful queries are both listed, and a failed one after
\* them left the list alone
C5_Witness ==
  /\ IsPost
  /\ ~IsNone(error_message)
  /\ HistoryLen(session) = 2
  /\ Get(session)[1] = Get(session)[2]

\* the columns the schema of a league requires
Schema(L) == IF L = NBA THEN {Team, PPG, OPP_PPG} ELSE {Team, G, PF, PA}

\* C6: when the fetched header row lacks a column the league's schema
\* requires, the request returns a missing-column error naming such a
\* column, nothing escapes, and the cache holds no entry for the league;
\* every entry of the cache has the columns of its schema.
C6_MissingColumnError ==
  /\ \A L \in DOMAIN sheet_data_cache : Schema(L) \subseteq Range(sheet_data_cache[L].columns)
  /\ \A L \in Leagues :
       (/\ IsPost
        /\ Spells(request.sheet_name, L)
        /\ ~IsNone(values_read)
        /\ Len(Get(values_read)) > 0
        /\ ~(Schema(L) \subseteq Range(Get(values_read)[1])))
         => /\ IsNone(escaped)
            /\ IsNone(result)
            /\ ~IsNone(error_message)
            /\ Get(error_message).what = "Missing required column"
            /\ Get(error_message).arg \in Schema(L) \ Range(Get(values_read)[1])
            /\ L \notin DOMAIN sheet_data_cache

\* C7: a key is matched case-insensitively (surrounding spaces ignored)
\* against NCAAF, NBA, NFL; for every key outside that set the call fails at
\* once with the unknown-league error, performs no remote read and no
\* credential access, and leaves the cache unchanged; a key of the set is
\* never refused as unknown.
C7_UnknownLeagueFailsAtOnce ==
  [][request'.method = "CALL" =>
       IF \A L \in Leagues : ~Spells(request'.sheet_name, L)
       THEN /\ IsNone(data')
            /\ ~IsNone(escaped')
            /\ Get(escaped').cls = "ValueError"
            /\ Get(escaped').what = "Sheet name is not valid"
            /\ remote_reads' = NoReads
            /\ credential_loads' = 0
            /\ IsNone(values_read')
            /\ sheet_data_cache' = sheet_data_cache
       ELSE IsNone(escaped') \/ Get(escaped').what # "Sheet name is not valid"]_vars

\* an unknown key was refused while the cache held a table
C7_Witness ==
  /\ request.method = "CALL"
  /\ request.sheet_name = Some(<<"N", "B">>)
  /\ ~IsNone(escaped)
  /\ DOMAIN sheet_data_cache = {NBA, NFL}

RECURSIVE SumOver(_, _)
SumOver(f, S) ==
  IF S = {} THEN 0
  ELSE LET x == CHOOSE y \in S : TRUE IN f[x] + SumOver(f, S \ {x})

\* C8: every query request ends at the request boundary with either a
\* numeric result or an error message, not both and not neither; no failure
\* escapes the handler; and the request performs at most one remote read.
C8_RequestEndsWithResultOrMessage ==
  IsPost =>
    /\ IsNone(escaped)
    /\ IsFloat(result) # ~IsNone(error_message)
    /\ SumOver(remote_reads, Leagues) <= 1
    /\ credential_loads <= 1

\* a request whose remote read failed ended with the message, after one read
C8_Witness ==
  /\ IsPost
  /\ error_message = Some(Message(TRUE, "Failed to fetch data from Google Sheets.", << >>))
  /\ remote_reads[NBA] = 1
  /\ IsNone(result)

\* what a single fetch builds from each content a sheet can have
BuiltTables ==
  {<<p[1], BuildTable(RemoteRead(p[1], p[2]).values, p[1])>> :
     p \in {q \in Leagues \X Outcomes : /\ RemoteRead(q[1], q[2]).credentials
                                         /\ RemoteRead(q[1], q[2]).http}}

\* the tables a single fetch of a sheet can produce
CompleteTables(L) == {p[2].df : p \in {q \in BuiltTables : q[1] = L /\ q[2].ok}}

IsComplete(df, L) ==
  /\ Schema(L) \subseteq Range(df.columns)
  /\ IsCoerced(df)
  /\ df \in CompleteTables(L)

\* C9: under any interleaving of concurrent fetches of one league the cache
\* entry is absent or one complete table produced by a single fetch (its
\* required columns present, every column but Team numeric), never a partly
\* built table or a mix of two; the entry changes only when a thread stores
\* its own finished table, so the last writer's stays; and every call that
\* returns, returns a complete table.
C9_CacheNeverCorrupted ==
  /\ [](/\ \A L \in DOMAIN sheet_data_cache : IsComplete(sheet_data_cache[L], L)
        /\ \A t \in 1..NumThreads :
             (threads[t].pc = "done" /\ IsNone(threads[t].exc))
               => (~IsNone(threads[t].ret) /\ IsComplete(Get(threads[t].ret), threads[t].actual)))
  /\ [][sheet_data_cache' # sheet_data_cache =>
          \E t \in 1..NumThreads :
            /\ threads[t].pc = "store"
            /\ threads'[t].pc = "return"
            /\ threads[t].df = BuildTable(threads[t].values, threads[t].actual).df
            /\ sheet_data_cache' =
                 CachePut(sheet_data_cache, threads[t].actual, threads[t].df)]_vars

\* both threads read the sheet, each found another content, and both
\* returned the table of the one that stored last
C9_Witness ==
  /\ \A t \in 1..NumThreads : threads[t].pc = "done" /\ Len(threads[t].values) > 0
  /\ threads[1].values # threads[2].values
  /\ NFL \in DOMAIN sheet_data_cache
  /\ sheet_data_cache[NFL] = BuildTable(threads[2].values, NFL).df
  /\ threads[1].ret = Some(sheet_data_cache[NFL])
  /\ threads[2].ret = Some(sheet_data_cache[NFL])

\* C10: the prediction formula depends only on the league identity: for
\* every key the fetch accepts, the request's prediction is the one
\* calculate_predicted gives for the league's own name, so two keys of one
\* league give the same prediction for the same teams and table.
C10_FormulaFollowsTheLeague ==
  \A L \in Leagues :
    (/\ IsPost
     /\ Spells(request.sheet_name, L)
     /\ ~IsNone(data)
     /\ ~IsNone(team1_match)
     /\ ~IsNone(team2_match))
      => result = calculate_predicted(Get(team1_match), Get(team2_match), Get(data), L).ret

====
